---- MODULE Spec2Model ----
(***************************************************************************)
(* Model of internal/solver/solver.go: the solver node's periodic          *)
(* snapshot -> Solve -> plan -> publish loop, the watcher nodes'           *)
(* watch -> fetch -> replace loop, the lease-bound key "allocation" of     *)
(* the coordination store and the process-wide cache Allocation.           *)
(*                                                                         *)
(* Conventions.  A float64 is an integer number of hundredths (15050 is    *)
(* 150.50).  A string that the code slices is a sequence of one-character  *)
(* strings.  Time is in seconds; it jumps from one timer or lease          *)
(* deadline to the next.  Variables whose comment says "history" are not   *)
(* program state: they record what happened so that properties can be      *)
(* stated.                                                                 *)
(***************************************************************************)
EXTENDS Integers, Sequences, FiniteSets, TLC

\* ------------------------------------------------------------------ bounds
MaxTime == 150
MaxCycles == 2

\* ------------------------------------------------------- program constants
DefaultEpochDuration == 30
LeaseTTL == 60
CtxTimeout == 5
TickerBuffer == 1
UrlPrefixLen == 7
UrlSuffixLen == 5
WorkloadScale == 1000000

\* ------------------------------------------------------------ environment
Procs == {"n1", "n2"}

\* Values of the configuration key EPOCH_DURATION: the default and one
\* value above the lease TTL.
EpochDurations == {DefaultEpochDuration, LeaseTTL + DefaultEpochDuration}

\* At most one process of the cluster is configured as the solver; the
\* processes are alike, so the solver, when there is one, is n1.
RoleConfigs == {c \in [Procs -> BOOLEAN] : ~c["n2"]}

\* Function names in the order of Go's sorted map keys.
NameOrder == <<"f", "g">>

Names == {NameOrder[k] : k \in 1..Len(NameOrder)}

\* What function.GetAll() can return when it succeeds.
FunctionLists == {<< >>, <<"f", "g">>}

\* The function registry's metadata (function.Function), floats in hundredths.
Metadata ==
  [n \in Names |->
     IF n = "f"
     THEN [MemoryMB |-> 128, Workload |-> 2500000, Deadline |-> 300, Invocations |-> 7]
     ELSE [MemoryMB |-> 256, Workload |-> 4000000, Deadline |-> 500, Invocations |-> 2]]

\* "http://h2:1323"
PeerUrl == <<"h", "t", "t", "p", ":", "/", "/", "h", "2", ":", "1", "3", "2", "3">>

\* registration.GetServersMap(): one peer.
ServersMap ==
  [s \in {"peer"} |->
     [Url |-> PeerUrl, TotalMemoryMB |-> 4000, ComputationalCapacity |-> 80000,
      MaximumCapacity |-> 20000, IPC |-> 100, PowerConsumption |-> 40000]]

\* node.Resources after initNodeResources(), floats in hundredths.
NodeResources ==
  [TotalMemoryMB |-> 8000, ComputationalCapacity |-> 80000, MaximumCapacity |-> 20000,
   IPC |-> 100, PowerConsumption |-> 40000]

\* utils.GetIpAddress().String()
LocalIp == <<"h", "1">>

\* --------------------------------------------------------------- JSON data
\* A JSON value of NodesInstances: a number (float64) or something else.
Num(v) == [isFloat |-> TRUE, val |-> v]

NotNum == [isFloat |-> FALSE, val |-> 0]

\* int(floatVal): truncation toward zero of a float in hundredths.
ToInt(v) == IF v >= 0 THEN v \div 100 ELSE -((-v) \div 100)

\* The FunctionsAllocation with no entry (the zero value of the cache).
EmptyAllocation == [n \in {} |-> 0]

\* A set as a sequence (the order in which an encoder writes a map's keys).
RECURSIVE SetToSeq(_)
SetToSeq(S) ==
  IF S = {} THEN << >>
  ELSE LET x == CHOOSE y \in S : TRUE IN <<x>> \o SetToSeq(S \ {x})

\* The elements of NameOrder that are in S, in order.
RECURSIVE SortedNames(_, _)
SortedNames(S, k) ==
  IF k > Len(NameOrder) THEN << >>
  ELSE (IF NameOrder[k] \in S THEN <<NameOrder[k]>> ELSE << >>) \o SortedNames(S, k + 1)

\* json.Marshal of a map[string]int: the members of the object.
MarshalInstances(m) ==
  LET ks == SetToSeq(DOMAIN m)
  IN [j \in 1..Len(ks) |-> [key |-> ks[j], val |-> m[ks[j]]]]

\* Marshal with Capacity written as an integer (the fraction is lost).
MarshalIntCapacity(allocation) ==
  LET ks == SortedNames(DOMAIN allocation, 1)
  IN [j \in 1..Len(ks) |->
        [key |-> ks[j],
         Capacity |-> ToInt(allocation[ks[j]].Capacity) * 100,
         Instances |-> MarshalInstances(allocation[ks[j]].Instances)]]

\* json.Marshal(allocation): one member per function name, keys sorted.
Marshal(allocation) ==
  LET ks == SortedNames(DOMAIN allocation, 1)
  IN [j \in 1..Len(ks) |->
        [key |-> ks[j],
         Capacity |-> allocation[ks[j]].Capacity,
         Instances |-> MarshalInstances(allocation[ks[j]].Instances)]]

\* json.Unmarshal into a map[string]int: a later member overrides an earlier one.
UnmarshalInstances(ms) ==
  [ip \in {ms[j].key : j \in 1..Len(ms)} |->
     ms[CHOOSE j \in 1..Len(ms) :
          ms[j].key = ip /\ \A l \in (j + 1)..Len(ms) : ms[l].key # ip].val]

\* Unmarshal that decodes the Capacity of each member and not its Instances.
UnmarshalNoInstances(payload) ==
  [n \in {payload[j].key : j \in 1..Len(payload)} |->
     LET m == payload[CHOOSE j \in 1..Len(payload) : payload[j].key = n]
     IN [Capacity |-> m.Capacity, Instances |-> EmptyAllocation]]

\* json.Unmarshal(value, &allocation)
Unmarshal(payload) ==
  [n \in {payload[j].key : j \in 1..Len(payload)} |->
     LET m == payload[CHOOSE j \in 1..Len(payload) :
                        payload[j].key = n /\ \A l \in (j + 1)..Len(payload) : payload[l].key # n]
     IN [Capacity |-> m.Capacity, Instances |-> UnmarshalInstances(m.Instances)]]


\* ------------------------------------------------------------ snapshot
\* Url[7 : len(Url) - 5] of Go, on a 1-based sequence.
HostOf(url) == SubSeq(url, UrlPrefixLen + 1, Len(url) - UrlSuffixLen)

\* Whether the slice expression Url[7 : len(Url) - 5] is out of range (a
\* run-time panic): the URL is shorter than its prefix and suffix.
SlicePanics(url) == Len(url) - UrlSuffixLen < UrlPrefixLen

\* int(x * 10) of a float in hundredths.
TimesTen(x) == ToInt(x * 10)

\* prepareNodeInfo with nodeIp filled by a second range over the map, which
\* visits the peers in the opposite order, and the local node first.
prepareNodeInfoTwoRanges(serversMap, order) ==
  LET n == Len(order)
      src(i) == IF i <= n THEN serversMap[order[i]] ELSE NodeResources
  IN [nodeInfo |->
        [TotalMemoryMB |-> [i \in 1..(n + 1) |-> src(i).TotalMemoryMB],
         ComputationalCapacity |-> [i \in 1..(n + 1) |-> ToInt(src(i).ComputationalCapacity)],
         MaximumCapacity |-> [i \in 1..(n + 1) |-> ToInt(src(i).MaximumCapacity)],
         IPC |-> [i \in 1..(n + 1) |-> TimesTen(src(i).IPC)],
         PowerConsumption |-> [i \in 1..(n + 1) |-> ToInt(src(i).PowerConsumption)]],
      nodeIp |-> [i \in 1..(n + 1) |->
                    IF i = 1 THEN LocalIp ELSE HostOf(serversMap[order[n + 2 - i]].Url)]]

\* prepareNodeInfo(serversMap): order is the order in which the range over
\* the map visits its keys; the local node is appended last.
prepareNodeInfo(serversMap, order) ==
  LET n == Len(order)
      src(i) == IF i <= n THEN serversMap[order[i]] ELSE NodeResources
  IN [nodeInfo |->
        [TotalMemoryMB |-> [i \in 1..(n + 1) |-> src(i).TotalMemoryMB],
         ComputationalCapacity |-> [i \in 1..(n + 1) |-> ToInt(src(i).ComputationalCapacity)],
         MaximumCapacity |-> [i \in 1..(n + 1) |-> ToInt(src(i).MaximumCapacity)],
         IPC |-> [i \in 1..(n + 1) |-> TimesTen(src(i).IPC)],
         PowerConsumption |-> [i \in 1..(n + 1) |-> ToInt(src(i).PowerConsumption)]],
      nodeIp |-> [i \in 1..(n + 1) |-> IF i <= n THEN HostOf(serversMap[order[i]].Url) ELSE LocalIp]]

\* The entry prepareFunctionInfo writes for a function whose lookup succeeds.
FunctionEntry(name) ==
  [MemoryMB |-> Metadata[name].MemoryMB,
   Workload |-> Metadata[name].Workload \div WorkloadScale,
   Deadline |-> Metadata[name].Deadline,
   Invocations |-> Metadata[name].Invocations]

ZeroEntry == [MemoryMB |-> 0, Workload |-> 0, Deadline |-> 0, Invocations |-> 0]

\* The entry of a function whose lookup fails: "continue" leaves the zeros of make().
SnapshotEntry(name, found) == IF name \in found THEN FunctionEntry(name) ELSE ZeroEntry

\* prepareFunctionInfo(functions): found is the set of names whose
\* function.GetFunction succeeds during this call.
prepareFunctionInfo(functions, found) ==
  [MemoryMB |-> [i \in 1..Len(functions) |-> SnapshotEntry(functions[i], found).MemoryMB],
   Workload |-> [i \in 1..Len(functions) |-> SnapshotEntry(functions[i], found).Workload],
   Deadline |-> [i \in 1..Len(functions) |-> SnapshotEntry(functions[i], found).Deadline],
   Invocations |-> [i \in 1..Len(functions) |-> SnapshotEntry(functions[i], found).Invocations]]

\* ------------------------------------------------------------- planning
\* The responses of the Solve capability that parse, as SolverResults.
ResultOptimal ==
  [SolverStatusName |-> "OPTIMAL",
   FunctionsCapacity |-> <<15050, 10000>>,
   NodesInstances |-> [k \in {0, 1} |-> IF k = 0 THEN <<Num(300), Num(0)>>
                                                 ELSE <<Num(100), Num(200)>>]]

ResultInfeasible ==
  [SolverStatusName |-> "INFEASIBLE",
   FunctionsCapacity |-> <<10000, 20000>>,
   NodesInstances |-> [k \in {1} |-> <<NotNum, Num(250)>>]]

SolverResponses == {ResultOptimal, ResultInfeasible}

NoResults == [SolverStatusName |-> "", FunctionsCapacity |-> << >>, NodesInstances |-> << >>]

\* The index expressions of one iteration of computeFunctionsAllocation
\* that are out of range for function i (1-based): instances[i],
\* nodeIp[key], results.FunctionsCapacity[i].
IndexPanics(results, i, nodeIp) ==
  \/ \E key \in DOMAIN results.NodesInstances :
       \/ Len(results.NodesInstances[key]) < i
       \/ /\ results.NodesInstances[key][i].isFloat
          /\ (key < 0 \/ key >= Len(nodeIp))
  \/ Len(results.FunctionsCapacity) < i

\* ipInstancesMap with the result of the type assertion ignored: a value that
\* is not a float64 is entered as the zero float64.
InstancesMapZeroFill(results, i, nodeIp) ==
  LET keys == {key \in DOMAIN results.NodesInstances :
                 results.NodesInstances[key][i].isFloat \/ key + 1 \in DOMAIN nodeIp}
      at(key) == results.NodesInstances[key][i]
  IN [ip \in {nodeIp[key + 1] : key \in keys} |->
        LET key == CHOOSE k \in keys : nodeIp[k + 1] = ip
        IN IF at(key).isFloat THEN ToInt(at(key).val) ELSE 0]

\* ipInstancesMap of function i: one key per node whose value is a float64.
InstancesMap(results, i, nodeIp) ==
  LET keys == {key \in DOMAIN results.NodesInstances : results.NodesInstances[key][i].isFloat}
  IN [ip \in {nodeIp[key + 1] : key \in keys} |->
        ToInt(results.NodesInstances[CHOOSE key \in keys : nodeIp[key + 1] = ip][i].val)]

\* allocation[functionName] of function i.
PlanEntry(results, i, nodeIp) ==
  [Capacity |-> results.FunctionsCapacity[i], Instances |-> InstancesMap(results, i, nodeIp)]

\* The ratio cut to 2 decimal places instead of rounded.
RoundedRatioTruncated(x, y) == (x * 100) \div y

\* math.Round(x / y * 100) / 100 on floats in hundredths, x >= 0, y > 0.
RoundedRatio(x, y) == (2 * x * 100 + y) \div (2 * y)

\* f.CPUDemand of function i.
CPUDemandOf(results, i) == RoundedRatio(results.FunctionsCapacity[i], NodeResources.MaximumCapacity)

\* m with key k set to v (a Go map assignment).
MapPut(m, k, v) == [x \in DOMAIN m \cup {k} |-> IF x = k THEN v ELSE m[x]]


\* ---------------------------------------------------------------- state
VARIABLES
  isSolverNode,   \* config.IS_SOLVER_NODE of each process
  epochDuration,  \* config.EPOCH_DURATION
  pc,             \* where each process is in Run()
  cause,          \* history: what terminated a process ("" while it runs)
  Allocation,     \* the process-wide cache of each process
  now,            \* the time
  nextTick,       \* when solverTicker fires next (0: no ticker yet)
  tickChan,       \* number of ticks buffered in solverTicker.C
  running,        \* number of activations of solve() in progress
  cyc,            \* the locals of the activation of solve() in progress
  records,        \* CPUDemand of each function record in the function registry
  store,          \* the key "allocation" of the coordination store and its lease
  subscribed,     \* whether the process's watch on "allocation" is open
  pendingEvents,  \* events sent to the process's watchChan and not yet received
  lastGet,        \* what the process's last getAllocationFromEtcd() returned
                  \* (idx is history: the publish the key held at that time)
  published,      \* history: the plans written under "allocation", in order
  solveCalls,     \* history: number of calls of the Solve capability
  trace,          \* history: the publishes each process's cache has held, in order
  subscribedAt,   \* history: number of publishes before the process subscribed
  ticksInCycle    \* history: ticks fired since the cycle in progress began

vars ==
  <<isSolverNode, epochDuration, pc, cause, Allocation, now, nextTick, tickChan, running,
    cyc, records, store, subscribed, pendingEvents, lastGet, published, solveCalls, trace,
    subscribedAt, ticksInCycle>>

NoFunctionInfo == [MemoryMB |-> << >>, Workload |-> << >>, Deadline |-> << >>, Invocations |-> << >>]

NoNodeInfo ==
  [TotalMemoryMB |-> << >>, ComputationalCapacity |-> << >>, MaximumCapacity |-> << >>,
   IPC |-> << >>, PowerConsumption |-> << >>]

\* The locals of solve() when no activation is in progress.  History:
\* lookupFailed (the names whose lookup failed in prepareFunctionInfo),
\* putsAtStart and callNo (the publishes and Solve calls so far when the
\* activation began, its own Solve call included), serversMap and order
\* (the servers map the activation read and the order in which the range
\* visited it), recordsAtStart (the function records when it began).
NoCycle ==
  [functions |-> << >>, functionInfo |-> NoFunctionInfo, nodeInfo |-> NoNodeInfo,
   nodeIp |-> << >>, results |-> NoResults, i |-> 0, allocation |-> EmptyAllocation,
   ctxStart |-> 0, leaseExpiry |-> 0, lookupFailed |-> {}, putsAtStart |-> 0, callNo |-> 0,
   serversMap |-> << >>, order |-> << >>, recordsAtStart |-> << >>]

\* The key "allocation" without a value.  History: idx (which publish the
\* value is) and results (the solver response it was planned from).
NoKey == [present |-> FALSE, val |-> << >>, expiry |-> 0, idx |-> 0, results |-> NoResults]

NoGet == [status |-> "none", plan |-> EmptyAllocation, idx |-> 0]

Init ==
  /\ isSolverNode \in RoleConfigs
  /\ epochDuration \in EpochDurations
  /\ pc = [p \in Procs |-> "start"]
  /\ cause = [p \in Procs |-> ""]
  /\ Allocation = [p \in Procs |-> EmptyAllocation]
  /\ now = 0
  /\ nextTick = 0
  /\ tickChan = 0
  /\ running = 0
  /\ cyc = NoCycle
  /\ records = [n \in Names |-> 0]
  /\ store = NoKey
  /\ subscribed = [p \in Procs |-> FALSE]
  /\ pendingEvents = [p \in Procs |-> 0]
  /\ lastGet = [p \in Procs |-> NoGet]
  /\ published = << >>
  /\ solveCalls = 0
  /\ trace = [p \in Procs |-> << >>]
  /\ subscribedAt = [p \in Procs |-> 0]
  /\ ticksInCycle = 0

\* A fatal log call replaced by log.Printf and a return to the loop.
LogOnly(p, why) ==
  /\ pc' = [pc EXCEPT ![p] = IF isSolverNode[p] THEN "idle" ELSE "watching"]
  /\ cause' = [cause EXCEPT ![p] = why]
  /\ UNCHANGED subscribed

\* log.Fatal / log.Fatalf: the process exits.
Fatal(p, why) ==
  /\ pc' = [pc EXCEPT ![p] = "dead"]
  /\ cause' = [cause EXCEPT ![p] = why]
  /\ subscribed' = [subscribed EXCEPT ![p] = FALSE]

\* One event for every open watch on "allocation".
Notify == [p \in Procs |-> IF subscribed[p] THEN pendingEvents[p] + 1 ELSE pendingEvents[p]]

\* ------------------------------------------------------------------ Run
\* Run() with the role test left out: either loop is entered.
RunEitherLoop(p) ==
  /\ pc[p] = "start"
  /\ \/ /\ Fatal(p, "initNodeResources")
        /\ UNCHANGED nextTick
     \/ /\ pc' = [pc EXCEPT ![p] = "idle"]
        /\ nextTick' = now + epochDuration
        /\ UNCHANGED <<cause, subscribed>>
     \/ /\ pc' = [pc EXCEPT ![p] = "watchInit"]
        /\ UNCHANGED <<cause, subscribed, nextTick>>
  /\ UNCHANGED <<isSolverNode, epochDuration, Allocation, now, tickChan, running, cyc, records,
                 store, pendingEvents, lastGet, published, solveCalls, trace, subscribedAt,
                 ticksInCycle>>

\* Run(): initNodeResources(), then the loop of the configured role.
Run(p) ==
  /\ pc[p] = "start"
  /\ \/ /\ Fatal(p, "initNodeResources")
        /\ UNCHANGED nextTick
     \/ /\ isSolverNode[p]
        /\ pc' = [pc EXCEPT ![p] = "idle"]
        /\ nextTick' = now + epochDuration
        /\ UNCHANGED <<cause, subscribed>>
     \/ /\ ~isSolverNode[p]
        /\ pc' = [pc EXCEPT ![p] = "watchInit"]
        /\ UNCHANGED <<cause, subscribed, nextTick>>
  /\ UNCHANGED <<isSolverNode, epochDuration, Allocation, now, tickChan, running, cyc, records,
                 store, pendingEvents, lastGet, published, solveCalls, trace, subscribedAt,
                 ticksInCycle>>

\* The ticker of a process exists from NewTicker until the process exits.
TickerOf(p) == isSolverNode[p] /\ pc[p] \notin {"start", "dead"}

\* A send on a channel that queues every tick.
sendTickQueued(c) == c + 1

\* The runtime's send on solverTicker.C: a tick is dropped when the buffer is full.
sendTick(c) == IF c < TickerBuffer THEN c + 1 ELSE c

\* The ticker fires every epochDuration seconds.
TimerFire(p) ==
  /\ TickerOf(p)
  /\ now = nextTick
  /\ tickChan' = sendTick(tickChan)
  /\ nextTick' = nextTick + epochDuration
  /\ ticksInCycle' = IF running > 0 THEN ticksInCycle + 1 ELSE 0
  /\ UNCHANGED <<isSolverNode, epochDuration, pc, cause, Allocation, now, running, cyc, records,
                 store, subscribed, pendingEvents, lastGet, published, solveCalls, trace,
                 subscribedAt>>

\* The instants at which something is due.
Deadlines ==
  {nextTick : p \in {q \in Procs : TickerOf(q)}} \cup (IF store.present THEN {store.expiry} ELSE {})

\* Time passes up to the next deadline; a due tick fires before time moves on.
Advance ==
  /\ \E t \in Deadlines :
       /\ t > now
       /\ t <= MaxTime
       /\ \A p \in Procs : TickerOf(p) => t <= nextTick
       /\ now' = t
  /\ UNCHANGED <<isSolverNode, epochDuration, pc, cause, Allocation, nextTick, tickChan, running,
                 cyc, records, store, subscribed, pendingEvents, lastGet, published, solveCalls,
                 trace, subscribedAt, ticksInCycle>>

\* The lease of the key has run out: the store deletes the key.
LeaseExpire ==
  /\ store.present
  /\ now >= store.expiry
  /\ store' = NoKey
  /\ pendingEvents' = Notify
  /\ UNCHANGED <<isSolverNode, epochDuration, pc, cause, Allocation, now, nextTick, tickChan,
                 running, cyc, records, subscribed, lastGet, published, solveCalls, trace,
                 subscribedAt, ticksInCycle>>


\* ------------------------------------------------------- the cache
\* setAllocation that merges the new plan into the cached one: a function's
\* entry keeps the instance counts of the nodes the new plan does not name.
setAllocationMerge(old, newAllocation) ==
  [n \in DOMAIN old \cup DOMAIN newAllocation |->
     IF n \notin DOMAIN newAllocation THEN old[n]
     ELSE IF n \notin DOMAIN old THEN newAllocation[n]
     ELSE [Capacity |-> newAllocation[n].Capacity,
           Instances |->
             [ip \in DOMAIN old[n].Instances \cup DOMAIN newAllocation[n].Instances |->
                IF ip \in DOMAIN newAllocation[n].Instances
                THEN newAllocation[n].Instances[ip] ELSE old[n].Instances[ip]]]]

\* setAllocation(newAllocation): the cache becomes newAllocation.
setAllocation(old, newAllocation) == newAllocation

\* GetAllocation() of process p.
GetAllocation(p) == Allocation[p]

\* ------------------------------------------------------- the store
\* Whether json.Unmarshal accepts the value as a FunctionsAllocation.
Decodable(payload) ==
  \A j \in 1..Len(payload) : payload[j].Capacity \in Int

\* History: which publish the key holds (0: the key has no value).
KeyIdx(st) == IF st.present THEN st.idx ELSE 0

\* Answer without the test "len(resp.Kvs) == 0": a key with no value is
\* reported as an empty plan.
AnswerEmptyPlan(st) ==
  IF ~st.present THEN [status |-> "ok", plan |-> EmptyAllocation, idx |-> KeyIdx(st)]
  ELSE [status |-> "ok", plan |-> Unmarshal(st.val), idx |-> KeyIdx(st)]

\* What getAllocationFromEtcd returns once etcdClient.Get has answered: the
\* not-found error when the key has no value, the Unmarshal error or the
\* decoded plan otherwise.
Answer(st) ==
  IF ~st.present THEN [status |-> "NotFound", plan |-> EmptyAllocation, idx |-> KeyIdx(st)]
  ELSE IF ~Decodable(st.val) THEN [status |-> "Corrupt", plan |-> EmptyAllocation, idx |-> KeyIdx(st)]
  ELSE [status |-> "ok", plan |-> Unmarshal(st.val), idx |-> KeyIdx(st)]

\* getAllocationFromEtcd(): every outcome it can have when the key is st.
\* "fatal": GetEtcdClient fails and log.Fatal exits; "Unavailable": Get fails
\* or times out.
getAllocationFromEtcd(st) ==
  {[status |-> "fatal", plan |-> EmptyAllocation, idx |-> KeyIdx(st)],
   [status |-> "Unavailable", plan |-> EmptyAllocation, idx |-> KeyIdx(st)],
   Answer(st)}

\* -------------------------------------------------------- watchAllocation
\* watchAllocation(): GetEtcdClient, then etcdClient.Watch.
watchStart(p) ==
  /\ pc[p] = "watchInit"
  /\ \/ /\ Fatal(p, "GetEtcdClient")
        /\ UNCHANGED subscribedAt
     \/ /\ pc' = [pc EXCEPT ![p] = "watching"]
        /\ subscribed' = [subscribed EXCEPT ![p] = TRUE]
        /\ subscribedAt' = [subscribedAt EXCEPT ![p] = Len(published)]
        /\ UNCHANGED cause
  /\ UNCHANGED <<isSolverNode, epochDuration, Allocation, now, nextTick, tickChan, running, cyc,
                 records, store, pendingEvents, lastGet, published, solveCalls, trace,
                 ticksInCycle>>

\* The range over watchChan yields the next event.
receiveEvent(p) ==
  /\ pc[p] = "watching"
  /\ pendingEvents[p] > 0
  /\ pendingEvents' = [pendingEvents EXCEPT ![p] = @ - 1]
  /\ pc' = [pc EXCEPT ![p] = "handling"]
  /\ UNCHANGED <<isSolverNode, epochDuration, cause, Allocation, now, nextTick, tickChan, running,
                 cyc, records, store, subscribed, lastGet, published, solveCalls, trace,
                 subscribedAt, ticksInCycle>>

\* The history of the publishes a cache has held, after it takes publish idx.
Held(tr, idx) == IF tr # << >> /\ tr[Len(tr)] = idx THEN tr ELSE Append(tr, idx)

\* The body of the event loop with the cache cleared when the key has no
\* value.
handleEventClearing(p) ==
  /\ pc[p] = "handling"
  /\ \E r \in getAllocationFromEtcd(store) :
       /\ lastGet' = [lastGet EXCEPT ![p] = r]
       /\ \/ /\ r.status = "fatal"
             /\ Fatal(p, "GetEtcdClient")
             /\ UNCHANGED <<Allocation, trace>>
          \/ /\ r.status \in {"Unavailable", "Corrupt"}
             /\ pc' = [pc EXCEPT ![p] = "watching"]
             /\ UNCHANGED <<cause, subscribed, Allocation, trace>>
          \/ /\ r.status = "NotFound"
             /\ Allocation' = [Allocation EXCEPT ![p] = EmptyAllocation]
             /\ pc' = [pc EXCEPT ![p] = "watching"]
             /\ UNCHANGED <<cause, subscribed, trace>>
          \/ /\ r.status = "ok"
             /\ Allocation' = [Allocation EXCEPT ![p] = setAllocation(@, r.plan)]
             /\ trace' = [trace EXCEPT ![p] = Held(@, r.idx)]
             /\ pc' = [pc EXCEPT ![p] = "watching"]
             /\ UNCHANGED <<cause, subscribed>>
  /\ UNCHANGED <<isSolverNode, epochDuration, now, nextTick, tickChan, running, cyc, records,
                 store, pendingEvents, published, solveCalls, subscribedAt, ticksInCycle>>

\* The body of the event loop: fetch, and on success replace the cache.
handleEvent(p) ==
  /\ pc[p] = "handling"
  /\ \E r \in getAllocationFromEtcd(store) :
       /\ lastGet' = [lastGet EXCEPT ![p] = r]
       /\ \/ /\ r.status = "fatal"
             /\ Fatal(p, "GetEtcdClient")
             /\ UNCHANGED <<Allocation, trace>>
          \/ /\ r.status \in {"Unavailable", "NotFound", "Corrupt"}
             /\ pc' = [pc EXCEPT ![p] = "watching"]
             /\ UNCHANGED <<cause, subscribed, Allocation, trace>>
          \/ /\ r.status = "ok"
             /\ Allocation' = [Allocation EXCEPT ![p] = setAllocation(@, r.plan)]
             /\ trace' = [trace EXCEPT ![p] = Held(@, r.idx)]
             /\ pc' = [pc EXCEPT ![p] = "watching"]
             /\ UNCHANGED <<cause, subscribed>>
  /\ UNCHANGED <<isSolverNode, epochDuration, now, nextTick, tickChan, running, cyc, records,
                 store, pendingEvents, published, solveCalls, subscribedAt, ticksInCycle>>

\* The client closes watchChan: the range ends and watchAllocation returns.
watchClosed(p) ==
  /\ pc[p] = "watching"
  /\ pc' = [pc EXCEPT ![p] = "returned"]
  /\ subscribed' = [subscribed EXCEPT ![p] = FALSE]
  /\ UNCHANGED <<isSolverNode, epochDuration, cause, Allocation, now, nextTick, tickChan, running,
                 cyc, records, store, pendingEvents, lastGet, published, solveCalls, trace,
                 subscribedAt, ticksInCycle>>


\* ------------------------------------------------------------------ solve
\* Whether the for/select loop of Run is inside a call of solve(): the
\* call is synchronous, so the loop receives no tick until it returns.
LoopBlocked == running > 0

\* The early return with the test of the function count left out.
SkipSolveNodesOnly(numberOfNodes, numberOfFunctions) == numberOfNodes = 0

\* The early return of solve(): "numberOfNodes == 0 || numberOfFunctions == 0".
SkipSolve(numberOfNodes, numberOfFunctions) == numberOfNodes = 0 \/ numberOfFunctions = 0

\* Where computeFunctionsAllocation is after function i - 1 of n: in the
\* loop, or returned to solve(), which calls saveAllocationToEtcd.
AfterPlan(i, n) == IF i > n THEN "saving" ELSE "planning"

\* The orders in which a range over a map with the keys S can visit them.
Orders(S) ==
  {o \in [1..Cardinality(S) -> S] : \A a, b \in 1..Cardinality(S) : o[a] = o[b] => a = b}

\* A tick is received and solve() runs up to the call of the Solve capability:
\* GetServersMap, GetAll, the early return, the two prepare functions, startSolver.
\* serversMaps and functionLists are what GetServersMap and GetAll can return.
solveBeginWith(p, serversMaps, functionLists) ==
  /\ TickerOf(p)
  /\ ~LoopBlocked
  /\ tickChan > 0
  /\ tickChan' = tickChan - 1
  /\ \/ /\ Fatal(p, "GetAll")
        /\ UNCHANGED <<running, cyc, solveCalls, ticksInCycle>>
     \/ \E serversMap \in serversMaps, functions \in functionLists :
          IF SkipSolve(Cardinality(DOMAIN serversMap) + 1, Len(functions))
          THEN UNCHANGED <<pc, cause, subscribed, running, cyc, solveCalls, ticksInCycle>>
          ELSE IF \E s \in DOMAIN serversMap : SlicePanics(serversMap[s].Url)
          THEN /\ Fatal(p, "panic")
               /\ UNCHANGED <<running, cyc, solveCalls, ticksInCycle>>
          ELSE /\ solveCalls < MaxCycles
               /\ \E order \in Orders(DOMAIN serversMap),
                     found \in SUBSET {functions[k] : k \in 1..Len(functions)} :
                    cyc' = [NoCycle EXCEPT
                              !.functions = functions,
                              !.functionInfo = prepareFunctionInfo(functions, found),
                              !.nodeInfo = prepareNodeInfo(serversMap, order).nodeInfo,
                              !.nodeIp = prepareNodeInfo(serversMap, order).nodeIp,
                              !.lookupFailed = {functions[k] : k \in 1..Len(functions)} \ found,
                              !.putsAtStart = Len(published),
                              !.callNo = solveCalls + 1,
                              !.serversMap = serversMap,
                              !.order = order,
                              !.recordsAtStart = records]
               /\ pc' = [pc EXCEPT ![p] = "solving"]
               /\ running' = running + 1
               /\ solveCalls' = solveCalls + 1
               /\ ticksInCycle' = 0
               /\ UNCHANGED <<cause, subscribed>>
  /\ UNCHANGED <<isSolverNode, epochDuration, Allocation, now, nextTick, records, store,
                 pendingEvents, lastGet, published, trace, subscribedAt>>

\* solve() in a cluster whose registries hold ServersMap and FunctionLists.
solveBegin(p) == solveBeginWith(p, {ServersMap}, FunctionLists)

\* solve() with a test of the status: a response that is not OPTIMAL ends
\* the cycle without a plan.
solveReturnGated(p, responses) ==
  /\ pc[p] = "solving"
  /\ \/ /\ Fatal(p, "Unmarshal")
        /\ UNCHANGED <<cyc, running>>
     \/ \E r \in responses :
          IF r.SolverStatusName = "OPTIMAL"
          THEN /\ cyc' = [cyc EXCEPT !.results = r, !.i = 1]
               /\ pc' = [pc EXCEPT ![p] = AfterPlan(1, Len(cyc.functions))]
               /\ UNCHANGED <<cause, subscribed, running>>
          ELSE /\ cyc' = NoCycle
               /\ pc' = [pc EXCEPT ![p] = "idle"]
               /\ running' = running - 1
               /\ UNCHANGED <<cause, subscribed>>
  /\ UNCHANGED <<isSolverNode, epochDuration, Allocation, now, nextTick, tickChan,
                 records, store, pendingEvents, lastGet, published, solveCalls, trace,
                 subscribedAt, ticksInCycle>>

\* startSolver returns and its JSON is unmarshalled into SolverResults;
\* responses are the responses that parse.
solveReturnWith(p, responses) ==
  /\ pc[p] = "solving"
  /\ \/ /\ Fatal(p, "Unmarshal")
        /\ UNCHANGED cyc
     \/ \E r \in responses :
          /\ cyc' = [cyc EXCEPT !.results = r, !.i = 1]
          /\ pc' = [pc EXCEPT ![p] = AfterPlan(1, Len(cyc.functions))]
          /\ UNCHANGED <<cause, subscribed>>
  /\ UNCHANGED <<isSolverNode, epochDuration, Allocation, now, nextTick, tickChan, running,
                 records, store, pendingEvents, lastGet, published, solveCalls, trace,
                 subscribedAt, ticksInCycle>>

\* The Solve capability answers one of SolverResponses.
solveReturn(p) == solveReturnWith(p, SolverResponses)

\* The loop body as an atomic batch: a failure puts back the records the
\* cycle has written so far.
planStepRollback(p) ==
  /\ pc[p] = "planning"
  /\ LET i == cyc.i
         name == cyc.functions[i]
     IN IF IndexPanics(cyc.results, i, cyc.nodeIp)
        THEN /\ Fatal(p, "panic")
             /\ UNCHANGED <<cyc, records>>
        ELSE \/ /\ Fatal(p, "FunctionNotFound")
                /\ records' = cyc.recordsAtStart
                /\ UNCHANGED cyc
             \/ /\ Fatal(p, "SaveToEtcd")
                /\ records' = cyc.recordsAtStart
                /\ UNCHANGED cyc
             \/ /\ records' = [records EXCEPT ![name] = CPUDemandOf(cyc.results, i)]
                /\ cyc' = [cyc EXCEPT !.allocation =
                             MapPut(@, name, PlanEntry(cyc.results, i, cyc.nodeIp)),
                           !.i = i + 1]
                /\ pc' = [pc EXCEPT ![p] = AfterPlan(i + 1, Len(cyc.functions))]
                /\ UNCHANGED <<cause, subscribed>>
  /\ UNCHANGED <<isSolverNode, epochDuration, Allocation, now, nextTick, tickChan, running,
                 store, pendingEvents, lastGet, published, solveCalls, trace, subscribedAt,
                 ticksInCycle>>

\* One iteration of the loop of computeFunctionsAllocation: the plan entry
\* of function i, then GetFunction, CPUDemand and SaveToEtcd.  An error it
\* returns is fatal in solve().
planStep(p) ==
  /\ pc[p] = "planning"
  /\ LET i == cyc.i
         name == cyc.functions[i]
     IN IF IndexPanics(cyc.results, i, cyc.nodeIp)
        THEN /\ Fatal(p, "panic")
             /\ UNCHANGED <<cyc, records>>
        ELSE \/ /\ Fatal(p, "FunctionNotFound")
                /\ cyc' = [cyc EXCEPT !.allocation =
                             MapPut(@, name, PlanEntry(cyc.results, i, cyc.nodeIp))]
                /\ UNCHANGED records
             \/ /\ Fatal(p, "SaveToEtcd")
                /\ cyc' = [cyc EXCEPT !.allocation =
                             MapPut(@, name, PlanEntry(cyc.results, i, cyc.nodeIp))]
                /\ UNCHANGED records
             \/ /\ records' = [records EXCEPT ![name] = CPUDemandOf(cyc.results, i)]
                /\ cyc' = [cyc EXCEPT !.allocation =
                             MapPut(@, name, PlanEntry(cyc.results, i, cyc.nodeIp)),
                           !.i = i + 1]
                /\ pc' = [pc EXCEPT ![p] = AfterPlan(i + 1, Len(cyc.functions))]
                /\ UNCHANGED <<cause, subscribed>>
  /\ UNCHANGED <<isSolverNode, epochDuration, Allocation, now, nextTick, tickChan, running,
                 store, pendingEvents, lastGet, published, solveCalls, trace, subscribedAt,
                 ticksInCycle>>

\* saveAllocationToEtcd up to the lease: GetEtcdClient, Marshal (which
\* cannot fail on the finite floats of a parsed response), the 5 s context,
\* Grant.
saveGrant(p) ==
  /\ pc[p] = "saving"
  /\ \/ /\ Fatal(p, "GetEtcdClient")
        /\ UNCHANGED cyc
     \/ /\ Fatal(p, "Grant")
        /\ UNCHANGED cyc
     \/ /\ cyc' = [cyc EXCEPT !.ctxStart = now, !.leaseExpiry = now + LeaseTTL]
        /\ pc' = [pc EXCEPT ![p] = "granted"]
        /\ UNCHANGED <<cause, subscribed>>
  /\ UNCHANGED <<isSolverNode, epochDuration, Allocation, now, nextTick, tickChan, running,
                 records, store, pendingEvents, lastGet, published, solveCalls, trace,
                 subscribedAt, ticksInCycle>>

\* The key written by Put(ctx, "allocation", payload, WithLease(resp.ID)).
PutKey(allocation, leaseExpiry, idx, results) ==
  [present |-> TRUE, val |-> Marshal(allocation), expiry |-> leaseExpiry, idx |-> idx,
   results |-> results]

\* saveAllocationToEtcd from Put on, and the return of solve().  Put fails
\* when the store fails it or the context of Grant and Put has timed out.
savePut(p) ==
  /\ pc[p] = "granted"
  /\ \/ /\ Fatal(p, "Put")
        /\ UNCHANGED <<running, cyc, store, pendingEvents, published>>
     \/ /\ now < cyc.ctxStart + CtxTimeout
        /\ store' = PutKey(cyc.allocation, cyc.leaseExpiry, Len(published) + 1, cyc.results)
        /\ published' = Append(published, cyc.allocation)
        /\ pendingEvents' = Notify
        /\ pc' = [pc EXCEPT ![p] = "idle"]
        /\ running' = running - 1
        /\ cyc' = NoCycle
        /\ UNCHANGED <<cause, subscribed>>
  /\ UNCHANGED <<isSolverNode, epochDuration, Allocation, now, nextTick, tickChan, records,
                 lastGet, solveCalls, trace, subscribedAt, ticksInCycle>>

\* ------------------------------------------------------------ the system
Next ==
  \/ \E p \in Procs : Run(p)
  \/ \E p \in Procs : TimerFire(p)
  \/ \E p \in Procs : solveBegin(p)
  \/ \E p \in Procs : solveReturn(p)
  \/ \E p \in Procs : planStep(p)
  \/ \E p \in Procs : saveGrant(p)
  \/ \E p \in Procs : savePut(p)
  \/ \E p \in Procs : watchStart(p)
  \/ \E p \in Procs : receiveEvent(p)
  \/ \E p \in Procs : handleEvent(p)
  \/ \E p \in Procs : watchClosed(p)
  \/ Advance
  \/ LeaseExpire

Spec == Init /\ [][Next]_vars

TypeOK ==
  /\ pc \in [Procs -> {"start", "idle", "solving", "planning", "saving", "granted",
                       "watchInit", "watching", "handling", "returned", "dead"}]
  /\ tickChan \in 0..TickerBuffer
  /\ running \in 0..1
  /\ now \in 0..MaxTime


\* ------------------------------------------- the planner on its own
\* The values an entry of NodesInstances takes: 3.0, 2.5 and a non-number.
PlanValues == {Num(300), Num(250), NotNum}

\* The values an entry of FunctionsCapacity takes: 150.0, 150.5 and 151.5.
PlanCapacities == {15000, 15050, 15150}

PlanStatuses == {"OPTIMAL", "INFEASIBLE", "TIMEOUT"}

\* NodesInstances for the two nodes of the snapshot: any subset of the node
\* indices, one value per function.
NodeInstanceMaps ==
  UNION {[K -> [1..Len(NameOrder) -> PlanValues]] : K \in SUBSET {0, 1}}

\* The responses whose lists are as long as the function list and whose
\* node indices are below the node count.
WellShapedResponses ==
  {[SolverStatusName |-> st, FunctionsCapacity |-> c, NodesInstances |-> ni] :
     st \in PlanStatuses, c \in [1..Len(NameOrder) -> PlanCapacities], ni \in NodeInstanceMaps}

\* Responses that parse and do not fit the snapshot: a FunctionsCapacity
\* and an instance list with one entry, and a node index that no node has.
IllShapedResponses ==
  {[SolverStatusName |-> "OPTIMAL", FunctionsCapacity |-> <<15000>>,
    NodesInstances |-> [k \in {0} |-> <<Num(300), Num(300)>>]],
   [SolverStatusName |-> "OPTIMAL", FunctionsCapacity |-> <<15000, 15000>>,
    NodesInstances |-> [k \in {0} |-> <<Num(300)>>]],
   [SolverStatusName |-> "OPTIMAL", FunctionsCapacity |-> <<15000, 15000>>,
    NodesInstances |-> [k \in {2} |-> <<Num(300), Num(300)>>]]}

PlanResponses == WellShapedResponses \cup IllShapedResponses

PlanFunctionLists == {<<"f">>, <<"f", "g">>}

\* The CPUDemand the function records hold before the cycle.
RecordsBefore == {[n \in Names |-> 0], [n \in Names |-> 33]}

\* The solver node inside solve(), waiting for startSolver to return.
InitPlan ==
  /\ isSolverNode = [p \in Procs |-> p = "n1"]
  /\ epochDuration = DefaultEpochDuration
  /\ pc = [p \in Procs |-> IF p = "n1" THEN "solving" ELSE "start"]
  /\ cause = [p \in Procs |-> ""]
  /\ Allocation = [p \in Procs |-> EmptyAllocation]
  /\ now = epochDuration
  /\ nextTick = 2 * epochDuration
  /\ tickChan = 0
  /\ running = 1
  /\ records \in RecordsBefore
  /\ \E functions \in PlanFunctionLists :
       cyc = [NoCycle EXCEPT
                !.functions = functions,
                !.functionInfo = prepareFunctionInfo(functions, Names),
                !.nodeInfo = prepareNodeInfo(ServersMap, SetToSeq(DOMAIN ServersMap)).nodeInfo,
                !.nodeIp = prepareNodeInfo(ServersMap, SetToSeq(DOMAIN ServersMap)).nodeIp,
                !.callNo = 1,
                !.serversMap = ServersMap,
                !.order = SetToSeq(DOMAIN ServersMap),
                !.recordsAtStart = records]
  /\ store = NoKey
  /\ subscribed = [p \in Procs |-> FALSE]
  /\ pendingEvents = [p \in Procs |-> 0]
  /\ lastGet = [p \in Procs |-> NoGet]
  /\ published = << >>
  /\ solveCalls = 1
  /\ trace = [p \in Procs |-> << >>]
  /\ subscribedAt = [p \in Procs |-> 0]
  /\ ticksInCycle = 0

NextPlan ==
  \/ \E p \in Procs : solveReturnWith(p, PlanResponses)
  \/ \E p \in Procs : planStep(p)
  \/ \E p \in Procs : saveGrant(p)
  \/ \E p \in Procs : savePut(p)

\* One solve cycle from the return of the Solve capability on, for every
\* response of PlanResponses.
SpecPlan == InitPlan /\ [][NextPlan]_vars

\* ------------------------------------------ the snapshot on its own
\* "https://h2:1323"
UrlHttps == <<"h", "t", "t", "p", "s", ":", "/", "/", "h", "2", ":", "1", "3", "2", "3">>

\* "http://h2:80"
UrlShortPort == <<"h", "t", "t", "p", ":", "/", "/", "h", "2", ":", "8", "0">>

\* "http://h23:1323"
UrlLongHost == <<"h", "t", "t", "p", ":", "/", "/", "h", "2", "3", ":", "1", "3", "2", "3">>

\* "a://h:1"
UrlTiny == <<"a", ":", "/", "/", "h", ":", "1">>

SnapUrls == {PeerUrl, UrlHttps, UrlShortPort, UrlLongHost, UrlTiny}

\* The resource statistics the peers advertise, floats in hundredths.
PeerStats ==
  [s \in {"a", "b"} |->
     IF s = "a"
     THEN [TotalMemoryMB |-> 4000, ComputationalCapacity |-> 80000, MaximumCapacity |-> 20000,
           IPC |-> 100, PowerConsumption |-> 40000]
     ELSE [TotalMemoryMB |-> 2000, ComputationalCapacity |-> 60000, MaximumCapacity |-> 30000,
           IPC |-> 150, PowerConsumption |-> 25000]]

\* The servers maps of a cluster with zero, one or two peers.
SnapServersMaps ==
  UNION {{[s \in K |->
             [Url |-> u[s], TotalMemoryMB |-> PeerStats[s].TotalMemoryMB,
              ComputationalCapacity |-> PeerStats[s].ComputationalCapacity,
              MaximumCapacity |-> PeerStats[s].MaximumCapacity,
              IPC |-> PeerStats[s].IPC,
              PowerConsumption |-> PeerStats[s].PowerConsumption]] :
            u \in [K -> SnapUrls]} : K \in SUBSET {"a", "b"}}

SnapFunctionLists == {<< >>, <<"f">>, <<"f", "g">>, <<"g", "f">>}

\* The solver node idle in its loop with a tick to receive.
InitSnap ==
  /\ isSolverNode = [p \in Procs |-> p = "n1"]
  /\ epochDuration \in EpochDurations
  /\ pc = [p \in Procs |-> IF p = "n1" THEN "idle" ELSE "start"]
  /\ cause = [p \in Procs |-> ""]
  /\ Allocation = [p \in Procs |-> EmptyAllocation]
  /\ now = epochDuration
  /\ nextTick = 2 * epochDuration
  /\ tickChan = 1
  /\ running = 0
  /\ cyc = NoCycle
  /\ records = [n \in Names |-> 0]
  /\ store = NoKey
  /\ subscribed = [p \in Procs |-> FALSE]
  /\ pendingEvents = [p \in Procs |-> 0]
  /\ lastGet = [p \in Procs |-> NoGet]
  /\ published = << >>
  /\ solveCalls = 0
  /\ trace = [p \in Procs |-> << >>]
  /\ subscribedAt = [p \in Procs |-> 0]
  /\ ticksInCycle = 0

NextSnap == \E p \in Procs : solveBeginWith(p, SnapServersMaps, SnapFunctionLists)

\* solve() up to the call of the Solve capability, for every servers map of
\* SnapServersMaps and every function list of SnapFunctionLists.
SpecSnap == InitSnap /\ [][NextSnap]_vars

\* ------------------------------------------------------------ properties
Solvers == {p \in Procs : isSolverNode[p]}

Watchers == {p \in Procs : ~isSolverNode[p]}

\* Whether the store answered the process's last getAllocationFromEtcd().
Answered(p) == lastGet[p].status \in {"ok", "NotFound", "Corrupt"}

\* Whether tr is strictly increasing.
Increasing(tr) == \A j \in 1..(Len(tr) - 1) : tr[j] < tr[j + 1]

\* C1: a getAllocationFromEtcd() that the store answers while the key holds
\* the value of a publish (its lease has not expired and no later publish
\* has replaced it) returns a plan equal to the plan that was published:
\* the same function names, the same Capacity, the same per-IP counts.
C1_RoundTrip ==
  \A p \in Procs :
    (Answered(p) /\ lastGet[p].idx > 0) =>
      /\ lastGet[p].status = "ok"
      /\ lastGet[p].idx <= Len(published)
      /\ lastGet[p].plan = published[lastGet[p].idx]

\* C1 witness: a get returned the published plan whose Capacity has a
\* fraction and whose Instances name both nodes.
C1_Witness ==
  \E p \in Procs :
    /\ lastGet[p].status = "ok"
    /\ lastGet[p].plan = published[lastGet[p].idx]
    /\ lastGet[p].plan["f"].Capacity = 15050
    /\ DOMAIN lastGet[p].plan["f"].Instances = {HostOf(PeerUrl), LocalIp}

\* C2 as stated: a watcher subscribed before the first publish holds P1
\* before it holds P2: its cache goes empty, P1, P2 and nothing else.
C2_Original ==
  \A p \in Watchers :
    subscribedAt[p] = 0 => trace[p] \in {<< >>, <<1>>, <<1, 2>>}

\* C2 amended: the cache of a watcher holds the empty plan until its first
\* successful fetch and from then on the whole plan of one publish; the
\* publishes it holds come in publish order, never an earlier one after a
\* later one, and a publish may be skipped (the fetch for P1's notification
\* may run after P2 was published, or fail).
C2_Amended ==
  \A p \in Watchers :
    /\ Increasing(trace[p])
    /\ \A j \in 1..Len(trace[p]) : trace[p][j] \in 1..Len(published)
    /\ Allocation[p] = IF trace[p] = << >> THEN EmptyAllocation
                       ELSE published[trace[p][Len(trace[p])]]

\* C2 witness: two different plans were published and a watcher subscribed
\* before the first has held the first and now holds the second.
C2_Witness ==
  \E p \in Watchers :
    /\ subscribedAt[p] = 0
    /\ Len(published) >= 2
    /\ published[1] # published[2]
    /\ trace[p] = <<1, 2>>
    /\ Allocation[p] = published[2]

\* C3: what GetAllocation() returns is the initial empty plan or one whole
\* plan that was stored under "allocation", never a mix of two plans.
C3_WholePlan ==
  \A p \in Procs :
    \/ GetAllocation(p) = EmptyAllocation
    \/ \E k \in 1..Len(published) : GetAllocation(p) = published[k]

\* C3 witness: two different plans were published, the second is in the
\* store and a process's cache holds the first.
C3_Witness ==
  \E p \in Procs :
    /\ Len(published) >= 2
    /\ published[1] # published[2]
    /\ store.present
    /\ store.idx = 2
    /\ GetAllocation(p) = published[1]

\* C4 as stated: when a solve cycle has completed successfully, the cache of
\* the solver node holds the plan that cycle published.
C4_SolverCacheReplaced ==
  \A p \in Solvers :
    (pc[p] = "idle" /\ published # << >>) =>
      GetAllocation(p) = published[Len(published)]

\* C5: no solve cycle gets past the early return with an empty function
\* list: a cycle that calls Solve, persists a record or writes "allocation"
\* has at least one function, and no publish writes an empty plan.
C5_NoFunctionsNoSolve ==
  /\ \A p \in Solvers :
       pc[p] \in {"solving", "planning", "saving", "granted"} => cyc.functions # << >>
  /\ \A k \in 1..Len(published) : published[k] # EmptyAllocation
  /\ (solveCalls = 0 => (store = NoKey /\ records = [n \in Names |-> 0]))

\* C5 witness: the solver has received a tick and is idle again, and no
\* Solve call, no record and no key exist (the function list was empty).
C5_Witness ==
  \E p \in Solvers :
    /\ pc[p] = "idle"
    /\ nextTick >= 2 * epochDuration
    /\ tickChan = 0
    /\ solveCalls = 0
    /\ store = NoKey
    /\ records = [n \in Names |-> 0]

\* C6: at most one solve cycle is in progress and at most one tick is
\* retained, however many periods the cycle in progress has overrun.
C6_NoOverlapOneTick ==
  /\ running <= 1
  /\ tickChan <= 1
  /\ \A p \in Solvers : (pc[p] = "idle" => running = 0)

\* C6 witness: the cycle in progress has overrun two periods and one tick
\* is pending.
C6_Witness ==
  /\ running = 1
  /\ ticksInCycle >= 2
  /\ tickChan = 1

\* C7: a get that the store answers returns the not-found error exactly
\* when the key has no value (the lease of the last publish has expired and
\* nothing was published since), and the plan when the key has one.
C7_NotFoundAfterExpiry ==
  \A p \in Procs :
    Answered(p) =>
      /\ (lastGet[p].idx = 0 <=> lastGet[p].status = "NotFound")
      /\ (lastGet[p].idx > 0 <=> lastGet[p].status = "ok")

\* C7 witness: the epoch is longer than the lease; a watcher fetched the
\* plan before the lease expired, and its get after the expiry and before
\* the next tick returned not-found.
C7_Witness ==
  \E p \in Watchers :
    /\ epochDuration > LeaseTTL
    /\ Len(published) = 1
    /\ trace[p] = <<1>>
    /\ ~store.present
    /\ now < nextTick
    /\ lastGet[p].status = "NotFound"

\* C8 as stated: a watcher survives every failure of the fetch that a
\* notification triggers: the process does not terminate.
C8_FetchFailureSurvived ==
  \A p \in Watchers :
    lastGet[p].status \notin {"none", "ok"} => pc[p] # "dead"

\* C9: a cycle whose solver response is malformed, or in which persisting a
\* function record fails, or whose lease grant fails, terminates the
\* process and writes nothing: no publish and no Solve call follow.
C9_FatalCycleWritesNothing ==
  \A p \in Solvers :
    cause[p] \in {"Unmarshal", "SaveToEtcd", "Grant"} =>
      /\ pc[p] = "dead"
      /\ Len(published) = cyc.putsAtStart
      /\ solveCalls = cyc.callNo
      /\ KeyIdx(store) <= cyc.putsAtStart

\* C9 witness: the second cycle died on the lease grant; the key still
\* holds the plan of the first cycle.
C9_Witness ==
  \E p \in Solvers :
    /\ pc[p] = "dead"
    /\ cause[p] = "Grant"
    /\ Len(published) = 1
    /\ store.present

\* C10 as stated: a function whose lookup failed during snapshot assembly
\* has zero snapshot entries, the other entries are unaffected, and it does
\* not terminate the cycle.
C10_LookupFailureSurvived ==
  \A p \in Solvers :
    (running > 0 /\ cyc.lookupFailed # {}) =>
      /\ cyc.functionInfo =
           prepareFunctionInfo(cyc.functions, Names \ cyc.lookupFailed)
      /\ ~(/\ pc[p] = "dead"
           /\ cause[p] = "FunctionNotFound"
           /\ cyc.functions[cyc.i] \in cyc.lookupFailed)

\* The nodeIp list of the one-peer cluster of SpecPlan.
PlanNodeIp == prepareNodeInfo(ServersMap, SetToSeq(DOMAIN ServersMap)).nodeIp

\* Whether the Instances map inst of a plan entry is what the claim says for
\* function j of the response results: a numeric value v at node k is
\* entered under ip(k) as the integer n with n <= v < n + 1, a non-numeric
\* one leaves no key ip(k).
Coerced(inst, results, j, nodeIp) ==
  \A k \in DOMAIN results.NodesInstances :
    (k + 1) \in DOMAIN nodeIp =>
      LET v == results.NodesInstances[k][j]
          ip == nodeIp[k + 1]
      IN IF v.isFloat
         THEN /\ ip \in DOMAIN inst
              /\ inst[ip] * 100 <= v.val
              /\ v.val < (inst[ip] + 1) * 100
         ELSE ip \notin DOMAIN inst

\* C11: for every function i and every node index k of NodesInstances, a
\* numeric NodesInstances[k][i] is in the plan entry of function i under
\* ip(k) as an integer (3.0 gives 3), a non-numeric one leaves no key ip(k)
\* and does not stop the cycle: the entries built in the cycle in progress
\* and the entries of the plan in the store are both of that form.
C11_InstanceCoercion ==
  /\ \A p \in Solvers :
       pc[p] \in {"planning", "saving", "granted"} =>
         \A j \in 1..(cyc.i - 1) :
           /\ cyc.functions[j] \in DOMAIN cyc.allocation
           /\ Coerced(cyc.allocation[cyc.functions[j]].Instances, cyc.results, j, cyc.nodeIp)
  /\ store.present =>
       \A j \in 1..Len(NameOrder) :
         NameOrder[j] \in DOMAIN published[store.idx] =>
           Coerced(published[store.idx][NameOrder[j]].Instances, store.results, j, PlanNodeIp)
  /\ \A p \in Solvers :
       (cause[p] = "panic" /\ cyc.i \in 1..Len(cyc.functions)) =>
         IndexPanics(cyc.results, cyc.i, cyc.nodeIp)

\* C11 witness: a plan is published from a response with 3.0 for (node 0,
\* function f) and a non-number for (node 1, function f): the entry of f
\* has 3 under the peer's IP and no key for the local node.
C11_Witness ==
  /\ store.present
  /\ 0 \in DOMAIN store.results.NodesInstances
  /\ 1 \in DOMAIN store.results.NodesInstances
  /\ store.results.NodesInstances[0][1] = Num(300)
  /\ store.results.NodesInstances[1][1] = NotNum
  /\ DOMAIN published[1]["f"].Instances = {HostOf(PeerUrl)}
  /\ published[1]["f"].Instances[HostOf(PeerUrl)] = 3

\* Whether nothing is left for watcher w to do about the value in the store:
\* it is in its loop, every notification sent to it has been handled, the
\* key holds the last publish and its last fetch, if any, succeeded.
Settled(w) ==
  /\ pc[w] = "watching"
  /\ pendingEvents[w] = 0
  /\ store.present
  /\ store.idx = Len(published)
  /\ lastGet[w].status \in {"none", "ok"}

\* C12 as stated: once the solver has published P and no publish, lease
\* expiry or fetch failure has followed, every running watcher, whether it
\* subscribed before or after P, comes to hold P: when nothing is left for
\* it to do, its cache is P.
C12_EventuallyConsistent ==
  \A w \in Watchers : Settled(w) => Allocation[w] = published[store.idx]

\* Where the "://" after the scheme of url begins.
SchemeEnd(url) ==
  CHOOSE i \in 1..(Len(url) - 2) :
    /\ url[i] = ":" /\ url[i + 1] = "/" /\ url[i + 2] = "/"
    /\ \A j \in 1..(i - 1) : url[j] # ":"

\* Where the ":" before the port of url is.
PortColon(url) ==
  CHOOSE i \in 1..Len(url) : url[i] = ":" /\ \A j \in (i + 1)..Len(url) : url[j] # ":"

\* The host part of a URL of the form scheme://host:port.
HostPart(url) == SubSeq(url, SchemeEnd(url) + 3, PortColon(url) - 1)

\* C13 as stated: for a peer URL of the form scheme://host:port, whatever
\* the lengths of scheme, host and port, the IP the snapshot records for the
\* peer is the host part of the URL, and assembling the snapshot succeeds.
C13_IpIsHost ==
  \A p \in Solvers :
    /\ cause[p] # "panic"
    /\ pc[p] = "solving" =>
         \A i \in 1..Len(cyc.order) :
           cyc.nodeIp[i] = HostPart(cyc.serversMap[cyc.order[i]].Url)

\* Whether position i of the five node arrays and of the IP list describes
\* the node with the statistics node and the IP ip.
NodeAt(i, node, ip) ==
  /\ cyc.nodeInfo.TotalMemoryMB[i] = node.TotalMemoryMB
  /\ cyc.nodeInfo.ComputationalCapacity[i] = ToInt(node.ComputationalCapacity)
  /\ cyc.nodeInfo.MaximumCapacity[i] = ToInt(node.MaximumCapacity)
  /\ cyc.nodeInfo.IPC[i] = TimesTen(node.IPC)
  /\ cyc.nodeInfo.PowerConsumption[i] = ToInt(node.PowerConsumption)
  /\ cyc.nodeIp[i] = ip

\* C14: in the snapshot of a cycle the five node arrays and the IP list have
\* length peers + 1; every position below the last holds the five values
\* and the IP of one peer, every peer has exactly one position, and the last
\* position holds the local node; the four function arrays are as long as
\* the function list and position i describes the function named at i.
C14_IndexAlignment ==
  \A p \in Solvers :
    pc[p] = "solving" =>
      LET peers == DOMAIN cyc.serversMap
          n == Cardinality(peers)
      IN /\ Len(cyc.nodeInfo.TotalMemoryMB) = n + 1
         /\ Len(cyc.nodeInfo.ComputationalCapacity) = n + 1
         /\ Len(cyc.nodeInfo.MaximumCapacity) = n + 1
         /\ Len(cyc.nodeInfo.IPC) = n + 1
         /\ Len(cyc.nodeInfo.PowerConsumption) = n + 1
         /\ Len(cyc.nodeIp) = n + 1
         /\ \E at \in [1..n -> peers] :
              /\ \A s \in peers : \E i \in 1..n : at[i] = s
              /\ \A i \in 1..n : NodeAt(i, cyc.serversMap[at[i]], HostOf(cyc.serversMap[at[i]].Url))
         /\ NodeAt(n + 1, NodeResources, LocalIp)
         /\ Len(cyc.functionInfo.MemoryMB) = Len(cyc.functions)
         /\ Len(cyc.functionInfo.Workload) = Len(cyc.functions)
         /\ Len(cyc.functionInfo.Deadline) = Len(cyc.functions)
         /\ Len(cyc.functionInfo.Invocations) = Len(cyc.functions)
         /\ \A i \in 1..Len(cyc.functions) :
              LET e == SnapshotEntry(cyc.functions[i], Names \ cyc.lookupFailed)
              IN /\ cyc.functionInfo.MemoryMB[i] = e.MemoryMB
                 /\ cyc.functionInfo.Workload[i] = e.Workload
                 /\ cyc.functionInfo.Deadline[i] = e.Deadline
                 /\ cyc.functionInfo.Invocations[i] = e.Invocations

\* C14 witness: a snapshot of two peers with different URLs that the range
\* visited as b, a, and of the function list g, f.
C14_Witness ==
  \E p \in Solvers :
    /\ pc[p] = "solving"
    /\ cyc.order = <<"b", "a">>
    /\ cyc.serversMap["a"].Url # cyc.serversMap["b"].Url
    /\ cyc.nodeIp[1] # cyc.nodeIp[2]
    /\ cyc.functions = <<"g", "f">>
    /\ cyc.lookupFailed = {}

\* Whether demand (in hundredths) is capacity / MaximumCapacity of the local
\* node rounded to 2 decimal places: it is within half a hundredth of the
\* ratio.
IsRoundedDemand(demand, capacity) ==
  LET y == NodeResources.MaximumCapacity
  IN /\ 2 * (demand * y - 100 * capacity) <= y
     /\ 2 * (100 * capacity - demand * y) < y

\* C15: for every function i planned in a cycle, the CPUDemand on its
\* record is FunctionsCapacity[i] / MaximumCapacity of the local node,
\* rounded to 2 decimal places (150.0 with 200 gives 0.75), and its plan
\* entry has Capacity FunctionsCapacity[i]; this holds for the functions
\* planned so far in the cycle in progress and for the published plan.
C15_CPUDemandRounded ==
  /\ \A p \in Solvers :
       pc[p] \in {"planning", "saving", "granted"} =>
         \A j \in 1..(cyc.i - 1) :
           /\ IsRoundedDemand(records[cyc.functions[j]], cyc.results.FunctionsCapacity[j])
           /\ cyc.allocation[cyc.functions[j]].Capacity = cyc.results.FunctionsCapacity[j]
  /\ store.present =>
       \A j \in 1..Len(NameOrder) :
         NameOrder[j] \in DOMAIN published[store.idx] =>
           /\ IsRoundedDemand(records[NameOrder[j]], store.results.FunctionsCapacity[j])
           /\ published[store.idx][NameOrder[j]].Capacity = store.results.FunctionsCapacity[j]
           /\ (store.results.FunctionsCapacity[j] = 15000 /\ NodeResources.MaximumCapacity = 20000)
                => records[NameOrder[j]] = 75

\* C15 witness: a published cycle with FunctionsCapacity 150.0 for f and
\* 151.5 for g: f's record has CPUDemand 0.75 and g's has 0.76.
C15_Witness ==
  /\ store.present
  /\ store.results.FunctionsCapacity = <<15000, 15150>>
  /\ DOMAIN published[1] = {"f", "g"}
  /\ records["f"] = 75
  /\ records["g"] = 76
  /\ published[1]["f"].Capacity = 15000
  /\ published[1]["g"].Capacity = 15150

\* C16: when the lookup or the persistence of the record of the function at
\* position k fails, the records of the functions before k carry the
\* CPUDemand of this cycle, the records of the functions at k and after are
\* what they were when the cycle began, no plan is returned (the process
\* exits) and the cycle publishes nothing.
C16_NonAtomicBatch ==
  \A p \in Solvers :
    cause[p] \in {"FunctionNotFound", "SaveToEtcd"} =>
      /\ pc[p] = "dead"
      /\ cyc.i \in 1..Len(cyc.functions)
      /\ \A j \in 1..(cyc.i - 1) :
           IsRoundedDemand(records[cyc.functions[j]], cyc.results.FunctionsCapacity[j])
      /\ \A j \in cyc.i..Len(cyc.functions) :
           records[cyc.functions[j]] = cyc.recordsAtStart[cyc.functions[j]]
      /\ Len(published) = cyc.putsAtStart
      /\ KeyIdx(store) <= cyc.putsAtStart

\* C16 witness: persisting the record of g, the second function, failed:
\* the record of f has changed to this cycle's CPUDemand, the record of g
\* still has 0.33, nothing is published.
C16_Witness ==
  \E p \in Solvers :
    /\ cause[p] = "SaveToEtcd"
    /\ cyc.functions = <<"f", "g">>
    /\ cyc.i = 2
    /\ cyc.recordsAtStart = [n \in Names |-> 33]
    /\ records["f"] # 33
    /\ records["g"] = 33
    /\ published = << >>
    /\ ~store.present

\* C17 as stated: on a non-solver node the watch loop repeats for ever:
\* while the process is alive it is waiting for a notification or applying
\* one, and it never leaves the loop, also when the store closes or cancels
\* the watch stream.
C17_WatchLoopForever ==
  \A w \in Watchers :
    pc[w] \notin {"start", "watchInit", "dead"} => pc[w] \in {"watching", "handling"}

\* Where a process is when it is in the solver loop, and in the watch loop.
SolverLoop == {"idle", "solving", "planning", "saving", "granted"}

WatchLoop == {"watchInit", "watching", "handling", "returned"}

\* C18: the role of a process never changes and the two loops exclude each
\* other: a non-solver process is never in the solver loop, and a Solve
\* call, a write of a function record and a write of "allocation" happen
\* only in a step of a solver process in its loop; a solver process is never
\* in the watch loop and never subscribed; the cache of a process is written
\* only by that process's own watch loop while it applies a notification.
C18_RolesExclusive ==
  [][/\ isSolverNode' = isSolverNode
     /\ \A p \in Procs :
          /\ ~isSolverNode[p] => pc'[p] \notin SolverLoop
          /\ isSolverNode[p] => (pc'[p] \notin WatchLoop /\ ~subscribed'[p])
          /\ Allocation'[p] # Allocation[p] =>
               /\ ~isSolverNode[p]
               /\ pc[p] = "handling"
               /\ \A q \in Procs \ {p} : Allocation'[q] = Allocation[q]
     /\ (\/ solveCalls' # solveCalls
         \/ records' # records
         \/ published' # published
         \/ (store' # store /\ store'.present)) =>
          /\ \E p \in Solvers : pc[p] \in SolverLoop
          /\ \A w \in Watchers : pc'[w] = pc[w] /\ lastGet'[w] = lastGet[w]
    ]_vars

\* C18 witness: both roles have acted: the solver has published and is idle
\* with an empty cache and no watch, and a watcher's cache holds the plan.
C18_Witness ==
  \E p \in Solvers, w \in Watchers :
    /\ pc[p] = "idle"
    /\ published # << >>
    /\ ~subscribed[p]
    /\ Allocation[p] = EmptyAllocation
    /\ subscribed[w]
    /\ Allocation[w] = published[1]

\* Whether a response fits a snapshot of n functions and the nodes nodeIp:
\* FunctionsCapacity and every list of NodesInstances have n entries and
\* every node index is below the node count.
WellShaped(results, n, nodeIp) ==
  /\ Len(results.FunctionsCapacity) = n
  /\ \A k \in DOMAIN results.NodesInstances :
       /\ Len(results.NodesInstances[k]) = n
       /\ k \in 0..(Len(nodeIp) - 1)

\* What can end a cycle after the response was parsed, other than the
\* response itself: a failing call of the function registry or of the store.
StoreFailures == {"FunctionNotFound", "SaveToEtcd", "GetEtcdClient", "Grant", "Put"}

\* C19: the solver status never gates publication.  After a response that
\* parses and fits the snapshot, whatever its SolverStatusName, the cycle
\* stops only on a failing registry or store call; when planning is done the
\* plan has exactly one entry per function name; and a cycle that returns
\* has published a plan with one entry per function name.
C19_StatusNeverGates ==
  /\ \A p \in Solvers :
       (/\ pc[p] \in {"planning", "saving", "granted", "dead"}
        /\ cyc.results # NoResults
        /\ WellShaped(cyc.results, Len(cyc.functions), cyc.nodeIp)) =>
         /\ cause[p] \in StoreFailures \cup {""}
         /\ pc[p] = "dead" <=> cause[p] # ""
         /\ pc[p] \in {"saving", "granted"} =>
              DOMAIN cyc.allocation = {cyc.functions[j] : j \in 1..Len(cyc.functions)}
  /\ \A p \in Solvers :
       pc[p] = "idle" =>
         /\ store.present
         /\ Len(published) = 1
         /\ store.results.SolverStatusName \in PlanStatuses
         /\ \E functions \in PlanFunctionLists :
              DOMAIN published[1] = {functions[j] : j \in 1..Len(functions)}

\* C19 witness: a cycle whose response has the status INFEASIBLE and fits
\* the snapshot of f and g has published a plan with the entries f and g.
C19_Witness ==
  \E p \in Solvers :
    /\ pc[p] = "idle"
    /\ store.present
    /\ store.results.SolverStatusName = "INFEASIBLE"
    /\ WellShaped(store.results, 2, PlanNodeIp)
    /\ DOMAIN published[1] = {"f", "g"}

\* C20: the cache of a process is never reset to empty once it holds a
\* plan: no step takes a non-empty cache to the empty plan, and the fetch
\* that follows the deletion of "allocation" and finds no value leaves the
\* cache as it is, so GetAllocation() goes on returning the last fetched
\* plan.
C20_CacheNeverReset ==
  [][\A p \in Procs :
       /\ GetAllocation(p) # EmptyAllocation => Allocation'[p] # EmptyAllocation
       /\ (pc[p] = "handling" /\ pc'[p] # "handling" /\ lastGet'[p].status # "ok") =>
            Allocation'[p] = Allocation[p]
       /\ (pc[p] = "handling" /\ pc'[p] # "handling" /\ ~store.present) =>
            lastGet'[p].status # "ok"
    ]_vars

\* C20 witness: the lease has expired, the watcher's fetch after the delete
\* notification found no value, and GetAllocation() still returns the plan
\* of the first publish, which the store no longer holds.
C20_Witness ==
  \E w \in Watchers :
    /\ pc[w] = "watching"
    /\ pendingEvents[w] = 0
    /\ ~store.present
    /\ lastGet[w].status = "NotFound"
    /\ published # << >>
    /\ GetAllocation(w) = published[1]
    /\ GetAllocation(w) # EmptyAllocation

====
